---- MODULE Spec2Model ----
(***************************************************************************)
(* A model of karelklima/speedtesting: the speed test servers              *)
(* (src/server.ts and the Hono server src/unnamed/part_000) and the two    *)
(* clients (speedTest in src/main.ts, speedTestClient in src/client.ts).   *)
(*                                                                         *)
(* Strings that the code parses are sequences of one-character strings.    *)
(* A JavaScript number that may be NaN is a sequence: << >> is NaN and     *)
(* <<v>> is the number v.                                                  *)
(***************************************************************************)
EXTENDS Integers, Sequences, FiniteSets, TLC

\* ------------------------------------------------------------- bounds
MaxLen == 3        \* longest size parameter drawn from the alphabet
MaxPull == 10      \* pulls of one download stream that are explored
MaxChunks == 3     \* chunks in which one upload body is delivered
MaxMsgs == 4       \* messages received on one echo channel
MaxPing == 2       \* largest pingCount of a run
MaxUnits == 2      \* largest downloadMegabytes / uploadMegabytes of a run
MaxRequests == 2   \* downloads, and uploads, one server handles at a time

\* ---------------------------------------------------------- constants
DATA_CHUNK_SIZE == 2^16       \* part_000: 1 << 16
DataChunkLength == 2^10       \* server.ts: new Uint8Array(1 << 10)
MAX_UPLOAD_LIMIT == 2^20      \* 1 << 20 in both servers
KiB == 2^10

Variants == {"hono", "plain"}

\* ------------------------------------------------- strings and numbers
NaN == << >>
Num(v) == <<v>>
IsNaN(n) == Len(n) = 0

DecDigits == <<"0", "1", "2", "3", "4", "5", "6", "7", "8", "9">>
HexDigits == DecDigits \o <<"a", "b", "c", "d", "e", "f">>

IsDigit(c, radix) == \E i \in 1..radix : HexDigits[i] = c
DigitVal(c) == (CHOOSE i \in 1..16 : HexDigits[i] = c) - 1

Tail2(s) == SubSeq(s, 3, Len(s))
IsHexPrefix(s) == Len(s) >= 2 /\ s[1] = "0" /\ s[2] = "x"

\* Length of the longest prefix of s made of digits of the radix.
RECURSIVE DigitPrefixLen(_, _)
DigitPrefixLen(s, radix) ==
  IF s = << >> \/ ~IsDigit(Head(s), radix) THEN 0
  ELSE 1 + DigitPrefixLen(Tail(s), radix)

\* Value of a sequence of digits of the radix.
RECURSIVE DigitsValue(_, _)
DigitsValue(s, radix) ==
  IF s = << >> THEN 0
  ELSE DigitsValue(SubSeq(s, 1, Len(s) - 1), radix) * radix + DigitVal(s[Len(s)])

\* Number.parseInt(string) with no radix: an optional sign, an optional 0x,
\* then the longest prefix of digits; what follows the digits is ignored.
ParseInt(s) ==
  LET neg == s # << >> /\ Head(s) = "-"
      s1 == IF s # << >> /\ Head(s) \in {"-", "+"} THEN Tail(s) ELSE s
      radix == IF IsHexPrefix(s1) THEN 16 ELSE 10
      s2 == IF IsHexPrefix(s1) THEN Tail2(s1) ELSE s1
      n == DigitPrefixLen(s2, radix)
      v == DigitsValue(SubSeq(s2, 1, n), radix)
  IN  IF n = 0 THEN NaN ELSE Num(IF neg THEN 0 - v ELSE v)

\* Number(string): the whole string must be a numeral; "" is 0.
ToNumber(s) ==
  LET neg == s # << >> /\ Head(s) = "-"
      s1 == IF s # << >> /\ Head(s) \in {"-", "+"} THEN Tail(s) ELSE s
  IN  IF s = << >> THEN Num(0)
      ELSE IF IsHexPrefix(s)
        THEN IF Len(s) > 2 /\ DigitPrefixLen(Tail2(s), 16) = Len(s) - 2
               THEN Num(DigitsValue(Tail2(s), 16)) ELSE NaN
      ELSE IF s1 # << >> /\ DigitPrefixLen(s1, 10) = Len(s1)
        THEN Num(IF neg THEN 0 - DigitsValue(s1, 10) ELSE DigitsValue(s1, 10))
      ELSE NaN

\* x << 1 on a 32-bit two's complement integer (no intermediate leaves 32 bits).
Dbl32(x) ==
  IF x >= 2^30 THEN (x - 2^30 - 2^30) + (x - 2^30 - 2^30)
  ELSE IF x < 0 - 2^30 THEN (x + 2^30 + 2^30) + (x + 2^30 + 2^30)
  ELSE x + x

\* x << k on 32-bit integers.
RECURSIVE Shl32(_, _)
Shl32(x, k) == IF k = 0 THEN x ELSE Shl32(Dbl32(x), k - 1)

\* x >> k on a non-negative 32-bit integer.
Shr32(x, k) == x \div (2^k)

\* ------------------------------------------------------ request inputs
Alphabet == {"0", "1", "2", "a", "-", "x"}

RECURSIVE Texts(_)
Texts(n) ==
  IF n = 0 THEN {<< >>}
  ELSE Texts(n - 1) \cup {Append(t, c) : t \in {u \in Texts(n - 1) : Len(u) = n - 1}, c \in Alphabet}

\* Sizes large enough for 32-bit arithmetic to matter: 2^21.
LargeTexts == {<<"2", "0", "9", "7", "1", "5", "2">>}

\* The size parameter of a download request: absent, or a text.
Absent == [present |-> FALSE, text |-> << >>]
Given(t) == [present |-> TRUE, text |-> t]
SizeParams == {Absent} \cup {Given(t) : t \in Texts(MaxLen) \cup LargeTexts}

\* searchParams.get("size") is null when absent, and parseInt reads "null".
ParamString(p) == IF p.present THEN p.text ELSE <<"n", "u", "l", "l">>

\* Lengths of the chunks in which an upload body arrives.
ChunkLengths == {1, 1023, 2^19, 2^20}

RECURSIVE Bodies(_)
Bodies(n) ==
  IF n = 0 THEN {<< >>}
  ELSE Bodies(n - 1) \cup {Append(b, c) : b \in {u \in Bodies(n - 1) : Len(u) = n - 1}, c \in ChunkLengths}

RECURSIVE Sum(_)
Sum(s) == IF s = << >> THEN 0 ELSE Head(s) + Sum(Tail(s))

VARIABLES
  dl,       \* the download request and its stream (one TransferSession)
  up,       \* the upload request and its sink (one TransferSession)
  echo,     \* one echo channel of the server: what it received and sent
  run,      \* one run of a client: speedTest or speedTestClient
  cfg,      \* the options a client was called with, and what it made of them
  conc      \* one server handling several requests at the same time

vars == <<dl, up, echo, run, cfg, conc>>

\* ============================================================ download
DlIdle ==
  [variant |-> "plain", param |-> Absent, phase |-> "idle", status |-> 0,
   contentLengthKiB |-> 0, chunkCount |-> 0, enqueuedChunks |-> 0,
   remainingBlocks |-> 0, emitted |-> 0, queued |-> 0]

\* The route /download/:size{[1-9][0-9]*}: the whole segment must match.
RouteMatches(p) ==
  /\ p.present
  /\ p.text # << >>
  /\ p.text[1] \in {"1", "2", "3", "4", "5", "6", "7", "8", "9"}
  /\ DigitPrefixLen(p.text, 10) = Len(p.text)

\* assert(size > 0) of downloadHandler; NaN > 0 is false.
SizeAccepted(size) == ~IsNaN(size) /\ size[1] > 0

\* `${size << 10}` of downloadHandler, in KiB (the low ten bits are zero).
PlainContentLengthKiB(size) == Shl32(size, 10) \div KiB

\* chunkCount * DATA_CHUNK_SIZE, in KiB.
HonoContentLengthKiB(chunkCount) == chunkCount * (DATA_CHUNK_SIZE \div KiB)

\* GET /download?size= on server.ts, through speedTestHandler's try/catch.
PlainDownload(p) ==
  LET size == ParseInt(ParamString(p))
  IN  IF ~SizeAccepted(size)
        THEN [DlIdle EXCEPT !.variant = "plain", !.param = p,
                            !.phase = "rejected", !.status = 400]
        ELSE [DlIdle EXCEPT !.variant = "plain", !.param = p,
                            !.phase = "streaming", !.status = 200,
                            !.remainingBlocks = size[1],
                            !.contentLengthKiB = PlainContentLengthKiB(size[1])]

\* GET /download/:size on the Hono server; an unmatched path is Hono's 404.
HonoDownload(p) ==
  IF ~RouteMatches(p)
    THEN [DlIdle EXCEPT !.variant = "hono", !.param = p,
                        !.phase = "rejected", !.status = 404]
    ELSE LET chunkCount == ToNumber(p.text)[1]
         IN  [DlIdle EXCEPT !.variant = "hono", !.param = p,
                            !.phase = "streaming", !.status = 200,
                            !.chunkCount = chunkCount,
                            !.contentLengthKiB = HonoContentLengthKiB(chunkCount)]

DownloadRequest(v, p) ==
  /\ dl.phase = "idle"
  /\ dl' = IF v = "plain" THEN PlainDownload(p) ELSE HonoDownload(p)
  /\ UNCHANGED <<up, echo, run, cfg, conc>>

\* if (remainingBlocks <= 0) controller.close()
PlainCloses(remainingBlocks) == remainingBlocks <= 0

\* if (enqueuedChunks === chunkCount) controller.close()
HonoCloses(enqueuedChunks, chunkCount) == enqueuedChunks = chunkCount

\* pull(controller) of the download stream: one chunk per call.
PlainPull(s) ==
  LET r == s.remainingBlocks - 1
  IN  [s EXCEPT !.emitted = @ + 1, !.queued = @ + 1, !.remainingBlocks = r,
                !.phase = IF PlainCloses(r) THEN "closed" ELSE @]

HonoPull(s) ==
  LET e == s.enqueuedChunks + 1
  IN  [s EXCEPT !.emitted = @ + 1, !.queued = @ + 1, !.enqueuedChunks = e,
                !.phase = IF HonoCloses(e, s.chunkCount) THEN "closed" ELSE @]

\* const HIGH_WATER_MARK = DATA_CHUNK_SIZE << 3
HIGH_WATER_MARK == Shl32(DATA_CHUNK_SIZE, 3)

\* The highWaterMark of the stream's queuing strategy: HIGH_WATER_MARK in
\* the Hono server, the default of 1 in server.ts.
HighWaterMark(v) == IF v = "hono" THEN HIGH_WATER_MARK ELSE 1

\* The size the strategy measures a chunk with: neither stream is a byte
\* stream nor has a size function, so every chunk measures 1.
ChunkMeasure(v) == 1

\* The stream calls pull while the measured size of its queue is below the
\* high-water mark (its desired size is positive).
ShouldPull(s) == s.queued * ChunkMeasure(s.variant) < HighWaterMark(s.variant)

DownloadPull ==
  /\ dl.phase = "streaming"
  /\ dl.emitted < MaxPull
  /\ ShouldPull(dl)
  /\ dl' = IF dl.variant = "plain" THEN PlainPull(dl) ELSE HonoPull(dl)
  /\ UNCHANGED <<up, echo, run, cfg, conc>>

\* The consumer of the response body takes one chunk off the queue.
DownloadRead ==
  /\ dl.queued > 0
  /\ dl' = [dl EXCEPT !.queued = @ - 1]
  /\ UNCHANGED <<up, echo, run, cfg, conc>>

\* ---------------------------------------------------- download: claims
\* The size is written as a positive integer numeral: [1-9][0-9]*.
IsPositiveNumeral(p) ==
  /\ p.present
  /\ p.text # << >>
  /\ Head(p.text) # "0"
  /\ \A i \in 1..Len(p.text) : IsDigit(p.text[i], 10)

\* The size is absent, zero or not a number (Number(text) is NaN).
IsBadSize(p) ==
  \/ ~p.present
  \/ IsNaN(ToNumber(p.text))
  \/ ToNumber(p.text) = Num(0)

IsNegativeSize(p) ==
  p.present /\ ~IsNaN(ToNumber(p.text)) /\ ToNumber(p.text)[1] < 0

ChunkKiB(v) == IF v = "plain" THEN DataChunkLength \div KiB ELSE DATA_CHUNK_SIZE \div KiB

\* C1: a download request for a positive integer n is answered by a stream
\* that enqueues exactly n chunks and is then closed, and whose declared
\* Content-Length is n x chunkSize, in both servers.
C1_DownloadExact ==
  (dl.phase # "idle" /\ IsPositiveNumeral(dl.param)) =>
    LET n == ToNumber(dl.param.text)[1]
    IN  /\ dl.phase \in {"streaming", "closed"}
        /\ dl.emitted <= n
        /\ (dl.phase = "closed" => dl.emitted = n)
        /\ dl.contentLengthKiB = n * ChunkKiB(dl.variant)

\* The part of C1 about the chunks alone (no Content-Length).
DownloadChunksExact ==
  (dl.phase # "idle" /\ IsPositiveNumeral(dl.param)) =>
    LET n == ToNumber(dl.param.text)[1]
    IN  /\ dl.phase \in {"streaming", "closed"}
        /\ dl.emitted <= n
        /\ (dl.phase = "closed" => dl.emitted = n)

\* C2: a download request whose size is 0, missing or non-numeric is
\* rejected: no stream is created and no chunk is ever enqueued.
C2_BadSizeRejected ==
  (dl.phase # "idle" /\ IsBadSize(dl.param)) =>
    (dl.phase = "rejected" /\ dl.emitted = 0)

\* C3: the rejection of a download request whose size is absent, zero,
\* negative or non-numeric has status 400, in both servers.
C3_RejectionIs400 ==
  (dl.phase = "rejected" /\ (IsBadSize(dl.param) \/ IsNegativeSize(dl.param))) =>
    dl.status = 400

\* C17: in the 64 KiB-chunk server the data enqueued and not yet consumed
\* never exceeds HIGH_WATER_MARK bytes (8 chunks), whatever the chunk count
\* and the consumer's pace.
C17_QueueWithinMark ==
  dl.variant = "hono" =>
    dl.queued * ChunkKiB("hono") <= HIGH_WATER_MARK \div KiB

\* What the streams do keep: the number of queued chunks within the mark.
QueuedChunksWithinMark == dl.queued <= HighWaterMark(dl.variant)

DownloadInit == dl = DlIdle

DownloadNext ==
  \/ \E v \in Variants, p \in SizeParams : DownloadRequest(v, p)
  \/ DownloadPull
  \/ DownloadRead

\* ============================================================== upload
UpIdle ==
  [variant |-> "plain", chunks |-> << >>, pending |-> << >>, phase |-> "idle",
   readBytes |-> 0, status |-> 0, text |-> 0]

\* POST /upload: readBytes = 0 and the body is piped to the sink.
UploadRequest(v, body) ==
  /\ up.phase = "idle"
  /\ up' = [UpIdle EXCEPT !.variant = v, !.chunks = body, !.pending = body,
                          !.phase = "reading"]
  /\ UNCHANGED <<dl, echo, run, cfg, conc>>

\* if (readBytes > MAX_UPLOAD_LIMIT) throw
LimitExceededLate(readBytes) == readBytes > 2 * MAX_UPLOAD_LIMIT
LimitExceededBug(readBytes) == readBytes >= MAX_UPLOAD_LIMIT
LimitExceeded(readBytes) == readBytes > MAX_UPLOAD_LIMIT

\* What the sink's write throws: an HTTPException(400) in the Hono server,
\* a plain Error in server.ts.
Thrown(v) ==
  IF v = "hono" THEN [http |-> TRUE, status |-> 400]
  ELSE [http |-> FALSE, status |-> 0]

\* server.onError of the Hono server; the catch of speedTestHandler.
ErrorStatus(v, err) ==
  IF v = "hono" THEN (IF err.http THEN err.status ELSE 500)
  ELSE 400

\* write(chunk) of the sink; a throw rejects pipeTo and so the handler.
SinkWrite(s) ==
  LET readBytes == s.readBytes + Head(s.pending)
  IN  IF LimitExceeded(readBytes)
        THEN [s EXCEPT !.readBytes = readBytes, !.pending = Tail(@),
                       !.phase = "responded",
                       !.status = ErrorStatus(s.variant, Thrown(s.variant))]
        ELSE [s EXCEPT !.readBytes = readBytes, !.pending = Tail(@)]

UploadWrite ==
  /\ up.phase = "reading"
  /\ up.pending # << >>
  /\ up' = SinkWrite(up)
  /\ UNCHANGED <<dl, echo, run, cfg, conc>>

\* The body ended: pipeTo resolves and the handler answers readBytes >> 10.
SinkEnd(s) ==
  [s EXCEPT !.phase = "responded", !.status = 200,
            !.text = Shr32(s.readBytes, 10)]

UploadEnd ==
  /\ up.phase = "reading"
  /\ up.pending = << >>
  /\ up' = SinkEnd(up)
  /\ UNCHANGED <<dl, echo, run, cfg, conc>>

\* The whole upload handler on one request: the session when it has answered.
RECURSIVE UploadAnswered(_)
UploadAnswered(s) ==
  IF s.phase = "responded" THEN s
  ELSE IF s.pending = << >> THEN SinkEnd(s)
  ELSE UploadAnswered(SinkWrite(s))

\* POST /upload with the given body, from request to response.
UploadResponse(v, body) ==
  UploadAnswered([UpIdle EXCEPT !.variant = v, !.chunks = body, !.pending = body,
                                !.phase = "reading"])

\* ------------------------------------------------------ upload: claims
\* C4: an upload of b bytes in any chunking is answered 200 with body
\* floor(b / 1024) when b <= MAX_UPLOAD_LIMIT, and 400 when b is larger.
C4_UploadAnswer ==
  up.phase = "responded" =>
    LET b == Sum(up.chunks)
    IN  IF b <= MAX_UPLOAD_LIMIT
          THEN up.status = 200 /\ up.text * KiB <= b /\ b < (up.text + 1) * KiB
          ELSE up.status = 400

\* An upload of exactly MAX_UPLOAD_LIMIT bytes, in several chunks, was answered.
C4_Witness ==
  /\ up.phase = "responded"
  /\ Sum(up.chunks) = MAX_UPLOAD_LIMIT
  /\ Len(up.chunks) > 1

\* An upload over the limit was answered after a chunk had been accepted.
UploadOverLimitAnswered ==
  /\ up.phase = "responded"
  /\ Sum(up.chunks) > MAX_UPLOAD_LIMIT
  /\ Len(up.chunks) - Len(up.pending) > 1

\* The chunks of the request that the sink has been given.
Consumed == SubSeq(up.chunks, 1, Len(up.chunks) - Len(up.pending))

\* C16: the running count is the sum of the chunks read; once a chunk takes
\* it above MAX_UPLOAD_LIMIT the request is answered and nothing more is
\* read, so the count exceeds the limit by less than its last chunk.
C16_AbortAtFirstExcess ==
  /\ up.readBytes = Sum(Consumed)
  /\ up.readBytes > MAX_UPLOAD_LIMIT =>
       /\ up.phase = "responded"
       /\ Consumed # << >>
       /\ up.readBytes - Consumed[Len(Consumed)] <= MAX_UPLOAD_LIMIT
       /\ ~ENABLED UploadWrite

\* An upload was aborted with a part of its body left unread.
C16_Witness ==
  /\ up.phase = "responded"
  /\ up.readBytes > MAX_UPLOAD_LIMIT
  /\ up.pending # << >>

UploadInit == up = UpIdle

UploadNext ==
  \/ \E v \in Variants, body \in Bodies(MaxChunks) : UploadRequest(v, body)
  \/ UploadWrite
  \/ UploadEnd




\* ================================================================ echo
\* Messages a client may send on the channel.
Messages == {"ping", "pong", "PING", ""}

EchoIdle ==
  [variant |-> "plain", phase |-> "idle", status |-> 0, closedBy |-> "nobody",
   received |-> << >>, sent |-> << >>, failed |-> FALSE]

\* The server's "message" listener: what it sends, whether it closes the
\* socket and whether it throws.
ServerHandlerBug(v, data) ==
  [send |-> <<"pong">>, close |-> FALSE, throws |-> FALSE]
ServerHandler(v, data) ==
  [send |-> IF data = "ping" THEN <<"pong">> ELSE << >>,
   close |-> FALSE, throws |-> FALSE]

\* GET /ws: a request without the upgrade header is a bad request (400 by
\* the catch of speedTestHandler, or by HTTPException and onError).
EchoUpgrade(v, hasUpgradeHeader) ==
  /\ echo.phase = "idle"
  /\ echo' = IF hasUpgradeHeader
               THEN [EchoIdle EXCEPT !.variant = v, !.phase = "open", !.status = 101]
               ELSE [EchoIdle EXCEPT !.variant = v, !.phase = "rejected",
                                     !.status = ErrorStatus(v, Thrown(v))]
  /\ UNCHANGED <<dl, up, run, cfg, conc>>

\* A message arrives on the open channel.
EchoMessage(data) ==
  /\ echo.phase = "open"
  /\ Len(echo.received) < MaxMsgs
  /\ LET h == ServerHandler(echo.variant, data)
     IN  echo' = [echo EXCEPT !.received = Append(@, data),
                              !.sent = @ \o h.send,
                              !.failed = @ \/ h.throws,
                              !.phase = IF h.close THEN "closed" ELSE @,
                              !.closedBy = IF h.close THEN "server" ELSE @]
  /\ UNCHANGED <<dl, up, run, cfg, conc>>

\* The client closes the channel.
EchoClientClose ==
  /\ echo.phase = "open"
  /\ echo' = [echo EXCEPT !.phase = "closed", !.closedBy = "client"]
  /\ UNCHANGED <<dl, up, run, cfg, conc>>

\* -------------------------------------------------------- echo: claims
RECURSIVE Count(_, _)
Count(s, m) ==
  IF s = << >> THEN 0
  ELSE (IF Head(s) = m THEN 1 ELSE 0) + Count(Tail(s), m)

\* C9: the server has sent exactly one "pong" for each "ping" it received
\* and nothing else, has raised no error, and has not closed the channel.
C9_EchoProtocol ==
  /\ Len(echo.sent) = Count(echo.received, "ping")
  /\ \A i \in 1..Len(echo.sent) : echo.sent[i] = "pong"
  /\ ~echo.failed
  /\ echo.closedBy # "server"

\* The channel received pings and other messages, and was then closed by
\* the client.
C9_Witness ==
  /\ echo.closedBy = "client"
  /\ Len(echo.sent) >= 2
  /\ Len(echo.received) > Len(echo.sent)

EchoInit == echo = EchoIdle

EchoNext ==
  \/ \E v \in Variants, h \in BOOLEAN : EchoUpgrade(v, h)
  \/ \E data \in Messages : EchoMessage(data)
  \/ EchoClientClose


\* ========================================================= client runs
\* The two clients: speedTest of main.ts and speedTestClient of client.ts.
Entries == {"main", "client"}

\* TESTS, in the order Object.keys gives and speedTestClient awaits them.
Tests == {"latency", "download", "upload"}
FetchTests == {"download", "upload"}
NextTest(t) == IF t = "latency" THEN "download" ELSE "upload"

\* Messages of the errors the runtime raises for a failed socket or fetch.
TransportMessages == {"", "connection refused"}

Unset == [unset |-> TRUE]
IsSet(r) == "unset" \notin DOMAIN r

Resolved(v) == [kind |-> "resolved", value |-> v]
Rejected(m) == [kind |-> "rejected", value |-> [message |-> m]]

RunIdle ==
  [entry |-> "main", server |-> "plain",
   pingCount |-> 0, downloadMegabytes |-> 0, uploadMegabytes |-> 0,
   pc |-> "init",
   runner |-> [t \in Tests |-> "none"],
   value |-> [t \in Tests |-> Unset],
   timer |-> [t \in Tests |-> "unset"],
   race |-> [t \in Tests |-> "none"],
   outcome |-> [t \in Tests |-> Unset],
   result |-> [t \in Tests |-> Unset],
   cause |-> [t \in Tests |-> "none"],
   socket |-> "none", counter |-> 0,
   toServer |-> << >>, toClient |-> << >>,
   pingsSent |-> 0, pongsReceived |-> 0,
   i |-> [t \in FetchTests |-> 0],
   fetching |-> [t \in FetchTests |-> FALSE],
   status |-> [t \in FetchTests |-> 0],
   requestFailed |-> [t \in FetchTests |-> FALSE],
   bodiesPending |-> 0]

\* The call testFunction(config) with no deadline around it.
StartTestNoDeadline(s, t) ==
  LET s1 == [s EXCEPT !.pc = t, !.runner[t] = "running", !.race[t] = "pending"]
  IN  IF t = "latency"
        THEN [s1 EXCEPT !.socket = "connecting"]
        ELSE [s1 EXCEPT !.i[t] = 0, !.fetching[t] = TRUE]

\* The call testFunction(config) and deadline(..., deadlineMs) around it:
\* the runner starts (a WebSocket is constructed, or the first fetch is
\* issued) and the timer is armed.
StartTest(s, t) ==
  LET s1 == [s EXCEPT !.pc = t, !.runner[t] = "running",
                      !.timer[t] = "armed", !.race[t] = "pending"]
  IN  IF t = "latency"
        THEN [s1 EXCEPT !.socket = "connecting"]
        ELSE [s1 EXCEPT !.i[t] = 0, !.fetching[t] = TRUE]

\* What the timer of deadline settles the race with.
TimeoutOutcomeBug(entry) ==
  IF entry = "main" THEN Rejected("Deadline reached")
  ELSE Resolved([ok |-> FALSE])
TimeoutOutcome(entry) ==
  IF entry = "main" THEN Rejected("Deadline reached")
  ELSE Resolved([ok |-> FALSE, deadline |-> TRUE])

\* Promise.race([promise, stop]): the first of the two to settle decides.
DeadlineWinnerLast(race, who) == who
DeadlineWinnerBug(race, who) ==
  IF race = "pending" /\ who = "operation" THEN who ELSE race
DeadlineWinner(race, who) ==
  IF race = "pending" THEN who ELSE race

\* After the awaited race of test t settled: the next iteration of the
\* loop, or the return.
Proceed(s, t) ==
  IF t = "upload" THEN [s EXCEPT !.pc = "returned"]
  ELSE StartTest(s, NextTest(t))

\* The continuation of `await deadline(...)`: speedTest catches a rejection
\* and records it, speedTestClient lets it propagate.
Continue(s, t, o) ==
  IF s.entry = "main"
    THEN Proceed([s EXCEPT !.result[t] =
                    IF o.kind = "resolved" THEN o.value
                    ELSE [ok |-> FALSE, error |-> o.value.message]], t)
  ELSE IF o.kind = "resolved"
    THEN Proceed([s EXCEPT !.result[t] = o.value], t)
  ELSE [s EXCEPT !.pc = "threw"]

IsFailure(o) == o.kind = "rejected" \/ ~o.value.ok

\* One of the two promises of the race settles.
SettleRace(s, t, who, o) ==
  LET w == DeadlineWinner(s.race[t], who)
  IN  IF w = s.race[t] THEN s
      ELSE Continue([s EXCEPT !.race[t] = w, !.outcome[t] = o,
                              !.cause[t] = IF who = "timeout" THEN "deadline"
                                           ELSE IF IsFailure(o) THEN "transport"
                                           ELSE "success"], t, o)

\* resolve / reject of the runner's promise; a settled promise stays.
SettleRunner(s, t, o) ==
  IF s.runner[t] # "running" THEN s
  ELSE SettleRace([s EXCEPT !.runner[t] = IF o.kind = "resolved" THEN "fulfilled"
                                           ELSE "rejected",
                            !.value[t] = o.value], t, "operation", o)

\* The first iteration of the loop over TESTS.
BeginAll(s) == StartTest(StartTest(StartTest(s, "upload"), "download"), "latency")
Begin(s) == StartTest(s, "latency")

\* speedTest(options) / speedTestClient(options) is called.
RunStart(e, v, k, d, u) ==
  /\ run.pc = "init"
  /\ run' = Begin([run EXCEPT !.entry = e, !.server = v, !.pingCount = k,
                              !.downloadMegabytes = d, !.uploadMegabytes = u])
  /\ UNCHANGED <<dl, up, echo, cfg, conc>>

\* ------------------------------------------------------ latency runner
\* socket.send("ping")
SendPingTwice(s) ==
  [s EXCEPT !.pingsSent = @ + 2, !.toServer = @ \o <<"ping", "ping">>]
SendPing(s) ==
  [s EXCEPT !.pingsSent = @ + 1, !.toServer = Append(@, "ping")]

\* The "open" listener: the first ping.
SocketOpen ==
  /\ run.socket = "connecting"
  /\ run' = SendPing([run EXCEPT !.socket = "open"])
  /\ UNCHANGED <<dl, up, echo, cfg, conc>>

\* The server's listener handles the next message of the channel.
ServerEcho ==
  /\ run.socket = "open"
  /\ run.toServer # << >>
  /\ run' = [run EXCEPT !.toServer = Tail(@),
                        !.toClient = @ \o ServerHandler(run.server, Head(run.toServer)).send]
  /\ UNCHANGED <<dl, up, echo, cfg, conc>>

\* counter === pingCount in main.ts, counter >= pingCount in client.ts.
LatencyDoneBug(entry, counter, pingCount) == counter > pingCount
LatencyDone(entry, counter, pingCount) ==
  IF entry = "main" THEN counter = pingCount ELSE counter >= pingCount

\* The "message" listener of the latency runner.
OnMessage(s, data) ==
  IF data # "pong" THEN s
  ELSE LET s1 == [s EXCEPT !.counter = @ + 1, !.pongsReceived = @ + 1]
       IN  IF LatencyDone(s1.entry, s1.counter, s1.pingCount)
             THEN SettleRunner(
                    IF s1.entry = "main"
                      THEN [s1 EXCEPT !.socket = "closed",
                                      !.toServer = << >>, !.toClient = << >>]
                      ELSE s1,
                    "latency", Resolved([ok |-> TRUE, pingCount |-> s1.pingCount]))
             ELSE SendPing(s1)

ClientMessage ==
  /\ run.socket = "open"
  /\ run.toClient # << >>
  /\ run' = OnMessage([run EXCEPT !.toClient = Tail(@)], Head(run.toClient))
  /\ UNCHANGED <<dl, up, echo, cfg, conc>>

\* The "error" listener: main.ts rejects, client.ts resolves { ok: false }.
OnError(s, m) ==
  SettleRunner(s, "latency",
               IF s.entry = "main" THEN Rejected(m) ELSE Resolved([ok |-> FALSE]))

\* The channel fails: an error event, after which nothing is delivered.
SocketError(m) ==
  /\ run.socket \in {"connecting", "open"}
  /\ run' = OnError([run EXCEPT !.socket = "errored",
                                !.toServer = << >>, !.toClient = << >>], m)
  /\ UNCHANGED <<dl, up, echo, cfg, conc>>

\* The server closes the channel, or the connection goes away, with a close
\* event and no error event: neither client listens to "close".
PeerCloses ==
  /\ run.socket \in {"connecting", "open"}
  /\ run' = [run EXCEPT !.socket = "closed", !.toServer = << >>, !.toClient = << >>]
  /\ UNCHANGED <<dl, up, echo, cfg, conc>>

\* --------------------------------------------- download / upload runner
Units(s, t) == IF t = "download" THEN s.downloadMegabytes ELSE s.uploadMegabytes

Success(s, t) ==
  IF t = "download"
    THEN [ok |-> TRUE, downloadMegabytes |-> s.downloadMegabytes]
    ELSE [ok |-> TRUE, uploadMegabytes |-> s.uploadMegabytes]

\* `await fetch(...)` resolves: the loop goes on, or the runner returns.
AfterFetch(s, t) ==
  LET n == s.i[t] + 1
  IN  IF n < Units(s, t)
        THEN [s EXCEPT !.i[t] = n]
        ELSE SettleRunner([s EXCEPT !.i[t] = n, !.fetching[t] = FALSE],
                          t, Resolved(Success(s, t)))

\* const size = 1 << 4 in main.ts, size: "1024" in client.ts.
DownloadSizeText(entry) ==
  IF entry = "main" THEN <<"1", "6">> ELSE <<"1", "0", "2", "4">>

\* main.ts asks for /download/:size, client.ts for /download?size=.
DownloadForm(entry) == IF entry = "main" THEN "param" ELSE "query"

\* The status a server answers a client's download request with: server.ts
\* routes on the pathname /download alone, the Hono server on
\* /download/:size alone; any other path is a 404.
DownloadStatus(server, entry) ==
  IF server = "plain"
    THEN (IF DownloadForm(entry) = "query"
            THEN PlainDownload(Given(DownloadSizeText(entry))).status ELSE 404)
    ELSE (IF DownloadForm(entry) = "param"
            THEN HonoDownload(Given(DownloadSizeText(entry))).status ELSE 404)

\* const dataChunk = new Uint8Array(1 << 20), the body of every upload.
UploadUnitBytes == 2^20

\* The chunkings in which the body of an upload request may arrive.
UploadBodies == {b \in Bodies(MaxChunks) : Sum(b) = UploadUnitBytes}

\* The chunkings in which the body of a client's request may arrive.
RequestBodies(t) == IF t = "upload" THEN UploadBodies ELSE {<< >>}

\* The status of the server's response to a request of test t.
ResponseStatus(s, t, body) ==
  IF t = "upload" THEN UploadResponse(s.server, body).status
  ELSE DownloadStatus(s.server, s.entry)

\* The response of the server arrives: fetch resolves with it, whatever its
\* status, when its head is received; a download's body follows.
FetchResponse(t, body) ==
  /\ run.fetching[t]
  /\ LET st == ResponseStatus(run, t, body)
     IN  run' = AfterFetch([run EXCEPT !.status[t] = st,
                                       !.requestFailed[t] = @ \/ st >= 400,
                                       !.bodiesPending =
                                         IF t = "download" /\ st = 200 THEN @ + 1 ELSE @],
                           t)
  /\ UNCHANGED <<dl, up, echo, cfg, conc>>

\* `await fetch(...)` rejects: the async runner rejects with the error.
FetchFail(t, m) ==
  /\ run.fetching[t]
  /\ run' = SettleRunner([run EXCEPT !.fetching[t] = FALSE,
                                     !.requestFailed[t] = TRUE], t, Rejected(m))
  /\ UNCHANGED <<dl, up, echo, cfg, conc>>

\* The body of a download response has been received completely.
BodyReceived ==
  /\ run.bodiesPending > 0
  /\ run' = [run EXCEPT !.bodiesPending = @ - 1]
  /\ UNCHANGED <<dl, up, echo, cfg, conc>>

\* ------------------------------------------------------------ deadline
\* The callback of setTimeout in deadline: the timer is never cleared.
TimerFires(t) ==
  /\ run.timer[t] = "armed"
  /\ run' = SettleRace([run EXCEPT !.timer[t] = "fired"], t, "timeout",
                       TimeoutOutcome(run.entry))
  /\ UNCHANGED <<dl, up, echo, cfg, conc>>


\* ------------------------------------------------------ client: claims
LatencySucceeded ==
  /\ run.runner["latency"] = "fulfilled"
  /\ run.value["latency"].ok

\* C5: for pingCount = k >= 1 the latency runner resolves successfully only
\* after exactly k pings sent and exactly k pongs received, and it never
\* sends a (k+1)-th ping.
C5_ExactlyKRoundTrips ==
  run.pc # "init" =>
    /\ run.pingsSent <= run.pingCount
    /\ run.pongsReceived <= run.pingsSent
    /\ LatencySucceeded =>
         (run.pingsSent = run.pingCount /\ run.pongsReceived = run.pingCount)

\* The latency runner resolved successfully after more than one round trip.
C5_Witness ==
  /\ LatencySucceeded
  /\ run.pingCount > 1
  /\ run.pingsSent = run.pingCount

\* The timer of test t fires in this step while the runner has not settled.
TimerFiresFirst(t) ==
  /\ run.timer[t] = "armed"
  /\ run'.timer[t] = "fired"
  /\ run.runner[t] = "running"

\* C6: when the timer of a deadline fires before the wrapped operation has
\* settled, the deadline call settles with the timeout failure, whether or
\* not the operation ever completes, and that outcome stays.
C6_TimeoutDecides ==
  [][\A t \in Tests :
       /\ TimerFiresFirst(t) =>
            /\ run'.race[t] = "timeout"
            /\ run'.outcome[t] \in {Rejected("Deadline reached"),
                                   Resolved([ok |-> FALSE, deadline |-> TRUE])}
            /\ run'.runner[t] = "running"
       /\ run.race[t] = "timeout" =>
            (run'.race[t] = "timeout" /\ run'.outcome[t] = run.outcome[t])]_vars

\* A deadline call settled by its timer while its operation is still
\* unsettled, and the run went on to the last sub-test.
C6_Witness ==
  /\ run.race["latency"] = "timeout"
  /\ run.runner["latency"] = "running"
  /\ run.race["download"] = "timeout"
  /\ run.runner["download"] = "running"
  /\ run.pc = "upload"

\* C7: whatever the outcomes of the sub-tests, the run does not throw, all
\* three sub-tests are executed and the returned record holds one entry for
\* each, a failed sub-test's entry being a Failure; in both clients.
C7_FailuresIsolated ==
  /\ run.pc # "threw"
  /\ run.pc = "returned" => \A t \in Tests : IsSet(run.result[t])
  /\ \A t \in Tests :
       (run.cause[t] \in {"transport", "deadline"} /\ run.pc = "returned") =>
         (IsSet(run.result[t]) /\ ~run.result[t].ok)

\* speedTest alone: the same statement for the client of main.ts.
MainFailuresIsolated ==
  run.entry = "main" => C7_FailuresIsolated

\* Sub-test t has network activity in progress: its echo channel is open
\* and still exchanging pings, or one of its requests is in flight.
Active(t) ==
  IF t = "latency"
    THEN run.socket \in {"connecting", "open"} /\ run.runner[t] = "running"
    ELSE run.fetching[t]

\* C8 as stated: in every reachable state at most one sub-test has network
\* activity in progress, also after a deadline decided a result.
C8_OneActive ==
  Cardinality({t \in Tests : Active(t)}) <= 1

\* C8 as amended: a sub-test with network activity in progress is the one
\* the run is awaiting, unless its result was decided by its deadline; so
\* at most one sub-test not abandoned by its deadline is active.
C8_OneActiveUnlessAbandoned ==
  /\ \A t \in Tests : Active(t) => (run.pc = t \/ run.cause[t] = "deadline")
  /\ Cardinality({t \in Tests : Active(t) /\ run.cause[t] # "deadline"}) <= 1

\* The upload is in flight after latency and download ended on their own.
C8_Witness ==
  /\ run.pc = "upload"
  /\ Active("upload")
  /\ run.cause["latency"] = "success"
  /\ run.cause["download"] = "success"

Succeeded(t) == run.runner[t] = "fulfilled" /\ run.value[t].ok

\* C11: when one of the requests of the download or upload runner failed (a
\* rejected fetch, or a response with an error status), the runner's result
\* is not a Success.
C11_FailedRequestFails ==
  \A t \in FetchTests : run.requestFailed[t] => ~Succeeded(t)

\* The part of C11 about rejected fetches alone.
RejectedFetchFails ==
  \A t \in FetchTests :
    (run.requestFailed[t] /\ run.status[t] \in {0, 200}) => ~Succeeded(t)

\* C13: the body of every upload request of a client is within the
\* server's limit, and every upload response is a 200, with either server.
UnitAcceptedByServers ==
  \A v \in Variants, body \in UploadBodies : UploadResponse(v, body).status = 200

C13_UploadUnitAccepted ==
  /\ UploadUnitBytes <= MAX_UPLOAD_LIMIT
  /\ UnitAcceptedByServers
  /\ run.status["upload"] \in {0, 200}

\* An upload runner completed all its requests against the Hono server.
C13_Witness ==
  /\ run.server = "hono"
  /\ run.status["upload"] = 200
  /\ run.i["upload"] = run.uploadMegabytes
  /\ run.uploadMegabytes > 1

\* C10: an entry produced by a deadline violation differs from every entry
\* produced by a transport error, in both clients.
C10_DeadlineDistinguishable ==
  \A t1 \in Tests, t2 \in Tests :
    ( /\ run.cause[t1] = "deadline" /\ IsSet(run.result[t1])
      /\ run.cause[t2] = "transport" /\ IsSet(run.result[t2]) ) =>
        run.result[t1] # run.result[t2]

\* A returned record of speedTestClient holds a transport failure and a
\* deadline failure.
C10_Witness ==
  /\ run.pc = "returned"
  /\ run.entry = "client"
  /\ \E t1 \in Tests, t2 \in Tests :
       /\ run.cause[t1] = "deadline" /\ IsSet(run.result[t1])
       /\ run.cause[t2] = "transport" /\ IsSet(run.result[t2])

\* The same for speedTest.
MainDeadlineAndTransport ==
  /\ run.pc = "returned"
  /\ run.entry = "main"
  /\ \E t1 \in Tests, t2 \in Tests :
       /\ run.cause[t1] = "deadline" /\ IsSet(run.result[t1])
       /\ run.cause[t2] = "transport" /\ IsSet(run.result[t2])

RunInit == run = RunIdle

\* What happens in a run once it has begun.
RunSteps ==
  \/ SocketOpen
  \/ ServerEcho
  \/ ClientMessage
  \/ \E m \in TransportMessages : SocketError(m)
  \/ \E t \in FetchTests : \E body \in RequestBodies(t) : FetchResponse(t, body)
  \/ \E t \in FetchTests, m \in TransportMessages : FetchFail(t, m)
  \/ \E t \in Tests : TimerFires(t)

RunNext ==
  \/ \E e \in Entries, v \in Variants, k \in 1..MaxPing,
        d \in 1..MaxUnits, u \in 1..MaxUnits : RunStart(e, v, k, d, u)
  \/ RunSteps

\* ======================================================= configuration
\* Values of JavaScript: undefined, a number (held as twice its value, so
\* that halves are exact), NaN, or a string.
JsUndefined == [type |-> "undefined", twice |-> 0, text |-> << >>]
JsNaN == [type |-> "nan", twice |-> 0, text |-> << >>]
JsNumber(n) == [type |-> "number", twice |-> n + n, text |-> << >>]
JsHalves(h) == [type |-> "number", twice |-> h, text |-> << >>]
JsString(t) == [type |-> "string", twice |-> 0, text |-> t]

\* The numeric options of both clients.
OptionKeys == {"pingCount", "downloadMegabytes", "uploadMegabytes", "deadlineSeconds"}

\* Values an option is given: 0, -1, 1, 2, 1.5, 2^28, NaN, "a", "2", or none.
OptionValues ==
  {JsUndefined, JsNaN, JsHalves(3), JsString(<<"a">>), JsString(<<"2">>)}
    \cup {JsNumber(n) : n \in {0, 0 - 1, 1, 2, 2^28}}

\* Number(value), as twice the number, or NaN.
Coerce(v) ==
  IF v.type = "number" THEN Num(v.twice)
  ELSE IF v.type = "string"
    THEN (IF IsNaN(ToNumber(v.text)) THEN NaN ELSE Num(2 * ToNumber(v.text)[1]))
  ELSE NaN

\* Number(value) as a value.
NumberOf(v) == IF IsNaN(Coerce(v)) THEN JsNaN ELSE JsHalves(Coerce(v)[1])

IsInteger(v) == v.type = "number" /\ v.twice % 2 = 0
IsPositive(v) == v.type = "number" /\ v.twice > 0

\* The defaults of the schema of main.ts and of defaultClientOptions.
Default(entry, key) ==
  CASE key = "pingCount" -> JsNumber(100)
    [] key = "deadlineSeconds" -> JsNumber(30)
    [] OTHER -> IF entry = "main" THEN JsNumber(50) ELSE JsNumber(100)

\* z.coerce.number().int().positive().default(d) on one value.
PositiveIntegerSchema(v, d) ==
  IF v.type = "undefined" THEN [success |-> TRUE, data |-> d]
  ELSE LET n == NumberOf(v)
       IN  [success |-> IsInteger(n) /\ IsPositive(n), data |-> n]

\* SpeedTestOptionsSchema.parse(options): the configuration, or a throw.
SchemaParse(options) ==
  LET parsed == [k \in OptionKeys |-> PositiveIntegerSchema(options[k], Default("main", k))]
  IN  [success |-> \A k \in OptionKeys : parsed[k].success,
       data |-> [k \in OptionKeys |-> parsed[k].data]]

\* if (flags[key]): undefined, 0, NaN and "" are falsy.
Truthy(v) ==
  \/ v.type = "number" /\ v.twice # 0
  \/ v.type = "string" /\ v.text # << >>

\* The reduce over the keys in the command line part of client.ts.
FlagsToOptions(flags) ==
  [k \in OptionKeys |-> IF Truthy(flags[k]) THEN NumberOf(flags[k]) ELSE JsUndefined]

\* { ...defaultClientOptions, ...options }: a key that is given wins.
Spread(options) ==
  [k \in OptionKeys |-> IF options[k].type = "undefined" THEN Default("client", k)
                        ELSE options[k]]

CfgIdle ==
  [entry |-> "main", flags |-> FALSE, phase |-> "idle",
   options |-> [k \in OptionKeys |-> JsUndefined],
   config |-> [k \in OptionKeys |-> JsUndefined],
   megabits |-> [t \in FetchTests |-> << >>]]

\* The options with which speedTest / speedTestClient makes its config.
Configured(entry, flags, options) ==
  LET given == IF entry = "client" /\ flags THEN FlagsToOptions(options) ELSE options
      parsed == SchemaParse(given)
  IN  IF entry = "main"
        THEN (IF parsed.success THEN [phase |-> "started", config |-> parsed.data]
              ELSE [phase |-> "rejected", config |-> CfgIdle.config])
        ELSE [phase |-> "started", config |-> Spread(given)]

\* A client is called with options, as a function or from the command line.
Configure(entry, flags, options) ==
  /\ cfg.phase = "idle"
  /\ LET c == Configured(entry, flags, options)
     IN  cfg' = [cfg EXCEPT !.entry = entry, !.flags = flags, !.options = options,
                           !.phase = c.phase, !.config = c.config]
  /\ UNCHANGED <<dl, up, echo, run, conc>>

\* A number that may leave 32 bits, held as its quotient and remainder by 8.
Wide(x) == [nan |-> FALSE, q |-> x \div 8, r |-> x % 8]
WideNaN == [nan |-> TRUE, q |-> 0, r |-> 0]

\* const megabits = megabytes << 3 of calculateMbps (main.ts), on the
\* positive integers the schema lets through.
ShiftMegabits(v) == Wide(Shl32(v.twice \div 2, 3))

\* downloadMegabytes * 8 of client.ts, in double arithmetic.
TimesEight(v) ==
  LET n == Coerce(v)
  IN  IF IsNaN(n) THEN WideNaN
      ELSE [nan |-> FALSE, q |-> n[1] \div 2, r |-> (n[1] % 2) * 4]

UnitsKey(t) == IF t = "download" THEN "downloadMegabytes" ELSE "uploadMegabytes"

\* The megabit count from which a runner computes its speed.
CalculateMbps(t) ==
  /\ cfg.phase = "started"
  /\ cfg.megabits[t] = << >>
  /\ cfg' = [cfg EXCEPT !.megabits[t] =
               <<IF cfg.entry = "main" THEN ShiftMegabits(cfg.config[UnitsKey(t)])
                 ELSE TimesEight(cfg.config[UnitsKey(t)])>>]
  /\ UNCHANGED <<dl, up, echo, run, conc>>

\* ----------------------------------------------- configuration: claims
\* An option that is given and is not a positive integer.
IsInvalid(v) ==
  v.type # "undefined" /\ ~(IsInteger(NumberOf(v)) /\ IsPositive(NumberOf(v)))

\* C12: an absent option takes its default; a given invalid option makes
\* the client reject the options before it starts, it is neither replaced
\* by the default nor passed on; every configuration a client starts with
\* has its four numbers positive. For both clients.
C12_ConfigValidated ==
  cfg.phase # "idle" =>
    \A k \in OptionKeys :
      /\ IsInvalid(cfg.options[k]) => cfg.phase = "rejected"
      /\ cfg.phase = "started" =>
           /\ IsPositive(NumberOf(cfg.config[k]))
           /\ cfg.options[k].type = "undefined" =>
                cfg.config[k] = Default(cfg.entry, k)

\* C12 for speedTest of main.ts alone.
MainConfigValidated == cfg.entry = "main" => C12_ConfigValidated

\* C19: for a positive integer number N of units of the configuration, the
\* megabit count of a speed is N x 8 exactly, in both clients.
C19_MegabitsExact ==
  \A t \in FetchTests :
    LET n == cfg.config[UnitsKey(t)]
    IN  (cfg.megabits[t] # << >> /\ IsInteger(n) /\ IsPositive(n)) =>
          cfg.megabits[t][1] = [nan |-> FALSE, q |-> n.twice \div 2, r |-> 0]

\* C19 for speedTestClient of client.ts alone.
ClientMegabitsExact == cfg.entry = "client" => C19_MegabitsExact

ConfigInit == cfg = CfgIdle

ConfigNext ==
  \/ /\ cfg.phase = "idle"
     /\ \E e \in Entries, f \in BOOLEAN, o \in [OptionKeys -> OptionValues] :
          Configure(e, f, o)
  \/ \E t \in FetchTests : CalculateMbps(t)

\* ================================================= concurrent requests
\* The requests in progress: each is one call of a handler.
Slots == 1..MaxRequests

\* Sizes and bodies of the concurrent requests.
ConcSizes == {Given(<<"1">>), Given(<<"2">>)}
ConcBodies == {<<2^19, 2^19>>, <<2^20, 1>>}

ConcIdle ==
  [variant |-> "plain", serving |-> FALSE,
   dl |-> [i \in Slots |-> DlIdle], up |-> [i \in Slots |-> UpIdle]]

\* Where the counters of request i live: `let remainingBlocks`, `let
\* enqueuedChunks` and `let readBytes` are declared inside the handler, so
\* each call has its own; at module level they would be one for all.
ModuleLevel(i) == 1
Closure(i) == i

\* The session of download i as its handler sees it.
DlView(c, i) ==
  [c.dl[i] EXCEPT !.remainingBlocks = c.dl[Closure(i)].remainingBlocks,
                  !.enqueuedChunks = c.dl[Closure(i)].enqueuedChunks]

\* The sessions after the handler of download i made its session s.
DlStore(c, i, s) ==
  LET d == [c.dl EXCEPT ![i] = s]
  IN  [d EXCEPT ![Closure(i)].remainingBlocks = s.remainingBlocks,
                ![Closure(i)].enqueuedChunks = s.enqueuedChunks]

UpView(c, i) == [c.up[i] EXCEPT !.readBytes = c.up[Closure(i)].readBytes]

UpStore(c, i, s) ==
  LET u == [c.up EXCEPT ![i] = s]
  IN  [u EXCEPT ![Closure(i)].readBytes = s.readBytes]

\* Deno.serve / the Hono server starts.
ServerStart(v) ==
  /\ ~conc.serving
  /\ conc' = [conc EXCEPT !.variant = v, !.serving = TRUE]
  /\ UNCHANGED <<dl, up, echo, run, cfg>>

\* A download request arrives while others are in progress.
ConcDownload(i, p) ==
  /\ conc.serving
  /\ conc.dl[i].phase = "idle"
  /\ conc' = [conc EXCEPT !.dl = DlStore(conc, i,
                 IF conc.variant = "plain" THEN PlainDownload(p) ELSE HonoDownload(p))]
  /\ UNCHANGED <<dl, up, echo, run, cfg>>

\* pull of the stream of download i.
ConcPull(i) ==
  /\ conc.dl[i].phase = "streaming"
  /\ ShouldPull(conc.dl[i])
  /\ conc' = [conc EXCEPT !.dl = DlStore(conc, i,
                 IF conc.variant = "plain" THEN PlainPull(DlView(conc, i))
                 ELSE HonoPull(DlView(conc, i)))]
  /\ UNCHANGED <<dl, up, echo, run, cfg>>

\* The consumer of download i takes a chunk.
ConcRead(i) ==
  /\ conc.dl[i].queued > 0
  /\ conc' = [conc EXCEPT !.dl[i].queued = @ - 1]
  /\ UNCHANGED <<dl, up, echo, run, cfg>>

\* An upload request arrives while others are in progress.
ConcUpload(i, body) ==
  /\ conc.serving
  /\ conc.up[i].phase = "idle"
  /\ conc' = [conc EXCEPT !.up = UpStore(conc, i,
                 [UpIdle EXCEPT !.variant = conc.variant, !.chunks = body,
                                !.pending = body, !.phase = "reading"])]
  /\ UNCHANGED <<dl, up, echo, run, cfg>>

\* write(chunk) of the sink of upload i.
ConcWrite(i) ==
  /\ conc.up[i].phase = "reading"
  /\ conc.up[i].pending # << >>
  /\ conc' = [conc EXCEPT !.up = UpStore(conc, i, SinkWrite(UpView(conc, i)))]
  /\ UNCHANGED <<dl, up, echo, run, cfg>>

\* The body of upload i ended.
ConcEnd(i) ==
  /\ conc.up[i].phase = "reading"
  /\ conc.up[i].pending = << >>
  /\ conc' = [conc EXCEPT !.up = UpStore(conc, i, SinkEnd(UpView(conc, i)))]
  /\ UNCHANGED <<dl, up, echo, run, cfg>>

\* -------------------------------------------- concurrent requests: claims
\* The chunks of upload i that its sink has been given.
ConcConsumed(i) ==
  SubSeq(conc.up[i].chunks, 1, Len(conc.up[i].chunks) - Len(conc.up[i].pending))

\* Download i is where it would be if it were the only request.
DownloadAlone(i) ==
  LET s == conc.dl[i]
      n == ToNumber(s.param.text)[1]
  IN  s.phase # "idle" =>
        /\ s.emitted <= n
        /\ (s.phase = "closed") = (s.emitted = n)
        /\ IF conc.variant = "plain" THEN s.remainingBlocks = n - s.emitted
           ELSE s.chunkCount = n /\ s.enqueuedChunks = s.emitted

\* Upload i is where it would be if it were the only request.
UploadAlone(i) ==
  LET s == conc.up[i]
      alone == UploadResponse(conc.variant, s.chunks)
  IN  s.phase # "idle" =>
        /\ s.readBytes = Sum(ConcConsumed(i))
        /\ s.phase = "responded" =>
             /\ s.status = alone.status
             /\ s.text = alone.text
             /\ s.readBytes = alone.readBytes

\* The sessions a step changes.
Touched ==
  {<<"dl", i>> : i \in {j \in Slots : conc'.dl[j] # conc.dl[j]}}
    \cup {<<"up", i>> : i \in {j \in Slots : conc'.up[j] # conc.up[j]}}

\* C21: in every interleaving of concurrent downloads and uploads each
\* download emits its own number of chunks, each upload counts, reports
\* and is capped on its own bytes, and a step of one request changes the
\* counters of no other.
C21_RequestsIsolated ==
  /\ [](\A i \in Slots : DownloadAlone(i) /\ UploadAlone(i))
  /\ [][Cardinality(Touched) <= 1]_vars

\* Two downloads and two uploads are half-way at the same time, one of the
\* uploads with the limit reached.
C21_Witness ==
  /\ conc.dl[1].phase = "streaming" /\ conc.dl[1].emitted = 1
  /\ conc.dl[2].phase = "streaming" /\ conc.dl[2].emitted = 1
  /\ conc.up[1].phase = "reading" /\ conc.up[1].readBytes = MAX_UPLOAD_LIMIT
  /\ conc.up[2].phase = "reading" /\ conc.up[2].readBytes = 2^19

ConcInit == conc = ConcIdle

ConcNext ==
  \/ \E v \in Variants : ServerStart(v)
  \/ \E i \in Slots, p \in ConcSizes : ConcDownload(i, p)
  \/ \E i \in Slots : ConcPull(i)
  \/ \E i \in Slots : ConcRead(i)
  \/ \E i \in Slots, body \in ConcBodies : ConcUpload(i, body)
  \/ \E i \in Slots : ConcWrite(i)
  \/ \E i \in Slots : ConcEnd(i)

Init == DownloadInit /\ UploadInit /\ EchoInit /\ RunInit /\ ConfigInit /\ ConcInit

SpecDownload == Init /\ [][DownloadNext]_vars

SpecUpload == Init /\ [][UploadNext]_vars

SpecEcho == Init /\ [][EchoNext]_vars

SpecRun == Init /\ [][RunNext]_vars

\* C14: latency round trips are sequential: the pings sent are the pongs
\* received or one more, a ping is sent only in reaction to a pong, and the
\* first one only when the channel opens.
C14_NoPipelining ==
  /\ [](/\ run.pingsSent - run.pongsReceived \in {0, 1}
        /\ Len(run.toServer) + Len(run.toClient) <= 1)
  /\ [][run'.pingsSent # run.pingsSent =>
          /\ run'.pingsSent = run.pingsSent + 1
          /\ \/ /\ run.pingsSent = 0
                /\ run.socket = "connecting"
                /\ run'.socket = "open"
             \/ /\ run.pingsSent > 0
                /\ run.toClient # << >>
                /\ Head(run.toClient) = "pong"
                /\ run'.pongsReceived = run.pongsReceived + 1]_vars

\* A second ping is on its way, after the first pong.
C14_Witness ==
  /\ run.pingsSent = 2
  /\ run.pongsReceived = 1
  /\ run.toServer = <<"ping">>

\* C15: when the latency runner resolved successfully, the client has closed
\* the channel, and the channel is not open afterwards.
C15_ClosedOnSuccess == LatencySucceeded => run.socket = "closed"

\* C15 for speedTest of main.ts alone.
MainClosedOnSuccess ==
  (run.entry = "main" /\ LatencySucceeded) => run.socket = "closed"

\* The abandoned operation of test t settles after its deadline.
LateCompletion(t) ==
  /\ run.race[t] = "timeout"
  /\ run.runner[t] = "running"
  /\ run'.runner[t] # "running"

\* The timer of test t fires after the operation settled.
LateTimer(t) ==
  /\ run.race[t] = "operation"
  /\ run.timer[t] = "armed"
  /\ run'.timer[t] = "fired"

\* C20: a recorded entry of the result never changes; the late settlement
\* of an operation abandoned by its deadline, and the late firing of the
\* timer of an operation that settled first, change no entry of the result
\* nor the course of the run.
C20_LateOutcomeDiscarded ==
  [][\A t \in Tests :
       /\ IsSet(run.result[t]) => run'.result[t] = run.result[t]
       /\ (LateCompletion(t) \/ LateTimer(t)) =>
            /\ run'.result = run.result
            /\ run'.pc = run.pc
            /\ run'.race = run.race
            /\ run'.outcome = run.outcome]_vars

\* An abandoned latency operation completed after its deadline failure was
\* recorded, and the timer of a settled download fired afterwards.
C20_Witness ==
  /\ run.cause["latency"] = "deadline"
  /\ run.runner["latency"] = "fulfilled"
  /\ IsSet(run.result["latency"])
  /\ ~run.result["latency"].ok
  /\ run.race["download"] = "operation"
  /\ run.timer["download"] = "fired"

\* An iteration of the download loop ends: its duration is added.
DownloadIterationEnds == run'.i["download"] = run.i["download"] + 1

\* C18: an iteration of the download runner ends, and the next request is
\* issued, only when the whole body of the iteration's response has been
\* received.
C18_BodyReceivedFirst ==
  [][DownloadIterationEnds => run'.bodiesPending = 0]_vars

\* One server with several requests in progress.
SpecConcurrent == Init /\ [][ConcNext]_vars

\* C22: a run that was started ends, by a return or a throw, and every
\* deadline-wrapped promise that was created settles, whatever the server
\* does, when the timers that are armed fire: from some point on the run
\* is over, if it ever began, and no race is pending.
C22_RunTerminates ==
  <>[](/\ run.pc \in {"init", "returned", "threw"}
       /\ \A t \in Tests : run.race[t] # "pending")

\* A run returned although its latency runner never settled: the channel
\* was closed without an error event.
C22_Witness ==
  /\ run.pc = "returned"
  /\ run.runner["latency"] = "running"
  /\ run.socket = "closed"
  /\ run.cause["latency"] = "deadline"

\* The runs against any server, with the channel closing, and timers that
\* fire; the download and the upload have the same number of units.
TerminateNext ==
  \/ \E e \in Entries, v \in Variants, k \in 1..MaxPing, n \in 1..MaxUnits :
       RunStart(e, v, k, n, n)
  \/ RunSteps
  \/ PeerCloses

SpecTerminate ==
  Init /\ [][TerminateNext]_vars /\ \A t \in Tests : WF_vars(TimerFires(t))

\* The clients' handling of their options.
SpecConfig == Init /\ [][ConfigNext]_vars

\* The runs, with the arrival of the download bodies.
SpecBody == Init /\ [][RunNext \/ BodyReceived]_vars

====
